---------------------------- MODULE Spec2Model ----------------------------
(***************************************************************************)
(* hypercurve: the shaping-function catalog of src/src/curve_lib.h and the *)
(* modulators of src/build-wasm.sh (modulator_lib.h), as a state machine   *)
(* over one shape instance, one output buffer and its shared iterator.     *)
(*                                                                         *)
(* A C++ double is modelled as an exact rational <<n, d>> in lowest terms  *)
(* with d > 0, extended with the IEEE specials <<1,0>> (+inf), <<-1,0>>    *)
(* (-inf) and <<0,0>> (NaN).  Rounding of doubles is not modelled.         *)
(***************************************************************************)
EXTENDS Integers, Sequences, FiniteSets, TLC

VARIABLES ctor, build, self, buf, it, last, ninit, crv, rnd

vars == <<ctor, build, self, buf, it, last, ninit, crv, rnd>>

(***************************************************************************)
(* Bounds of the model.                                                    *)
(***************************************************************************)
\* largest size handed to one process_all call, and the buffer's length
MaxSize == 4
\* init calls on the instance in one run (cubic_spline_curve grows per init)
MaxInits == 2

BufLen == MaxSize

(***************************************************************************)
(* double arithmetic                                                       *)
(***************************************************************************)
Sign(n) == IF n > 0 THEN 1 ELSE IF n < 0 THEN -1 ELSE 0

AbsI(n) == IF n < 0 THEN -n ELSE n

RECURSIVE GCD(_, _)
GCD(a, b) == IF b = 0 THEN a ELSE GCD(b, a % b)

Norm(n, d) ==
    IF d = 0 THEN <<Sign(n), 0>>
    ELSE LET g == GCD(AbsI(n), AbsI(d))
             s == Sign(d)
         IN  <<(s * n) \div g, (s * d) \div g>>

R(n, d) == Norm(n, d)

Zero == <<0, 1>>
One == <<1, 1>>
NaN == <<0, 0>>
PosInf == <<1, 0>>

IsNaN(a) == a = NaN

Finite(a) == a[2] # 0

Neg(a) == <<-a[1], a[2]>>

Add(a, b) ==
    IF a[2] = 0 \/ b[2] = 0
    THEN IF IsNaN(a) \/ IsNaN(b) THEN NaN
         ELSE IF a[2] = 0 /\ b[2] = 0 THEN (IF a[1] = b[1] THEN a ELSE NaN)
         ELSE IF a[2] = 0 THEN a ELSE b
    ELSE LET g == GCD(a[2], b[2])
         IN  Norm(a[1] * (b[2] \div g) + b[1] * (a[2] \div g), (a[2] \div g) * b[2])

Sub(a, b) == Add(a, Neg(b))

Mul(a, b) ==
    IF a[2] = 0 \/ b[2] = 0 THEN Norm(a[1] * b[1], 0)
    ELSE LET g1 == GCD(AbsI(a[1]), b[2])
             g2 == GCD(AbsI(b[1]), a[2])
         IN  <<(a[1] \div g1) * (b[1] \div g2), (a[2] \div g2) * (b[2] \div g1)>>

Inv(b) ==
    IF b[2] = 0 THEN (IF b[1] = 0 THEN NaN ELSE Zero)
    ELSE IF b[1] = 0 THEN PosInf
    ELSE <<Sign(b[1]) * b[2], AbsI(b[1])>>

Div(a, b) == Mul(a, Inv(b))

\* comparisons are false as soon as one side is NaN
LT(a, b) == ~IsNaN(a) /\ ~IsNaN(b) /\ a[1] * b[2] < b[1] * a[2]

LE(a, b) == ~IsNaN(a) /\ ~IsNaN(b) /\ a[1] * b[2] <= b[1] * a[2]

GT(a, b) == LT(b, a)

GE(a, b) == LE(b, a)

\* std::abs
AbsR(a) == <<AbsI(a[1]), a[2]>>

\* std::min(a, b) is (b < a) ? b : a
MinR(a, b) == IF LT(b, a) THEN b ELSE a

\* std::pow(x, k) for a whole exponent k >= 0; pow(x, 0) is 1 for every x
RECURSIVE Pow(_, _)
Pow(x, k) == IF k = 0 THEN One ELSE Mul(x, Pow(x, k - 1))

squared(x) == Mul(x, x)

cubed(x) == Mul(x, Mul(x, x))

\* largest k in lo..hi with k * k <= n (bisection; lo * lo <= n throughout)
RECURSIVE ISqrtIn(_, _, _)
ISqrtIn(n, lo, hi) ==
    IF lo >= hi THEN lo
    ELSE LET mid == (lo + hi + 1) \div 2
         IN  IF mid * mid <= n THEN ISqrtIn(n, mid, hi) ELSE ISqrtIn(n, lo, mid - 1)

ISqrt(n) == ISqrtIn(n, 0, IF n < 46340 THEN n ELSE 46340)

\* the grid a non-exact square root is rounded down to (doubles round to 2^-52)
SqrtGrid == 2 * 2 * 2 * 2 * 2 * 2

\* std::sqrt: exact on squares of rationals, rounded down to the grid otherwise
Sqrt(a) ==
    IF IsNaN(a) \/ a[1] < 0 THEN NaN
    ELSE IF a[2] = 0 THEN a
    ELSE LET rn == ISqrt(a[1])
             rd == ISqrt(a[2])
         IN  IF rn * rn = a[1] /\ rd * rd = a[2] THEN <<rn, rd>>
             ELSE Norm(ISqrt((a[1] * SqrtGrid * SqrtGrid) \div a[2]), SqrtGrid)

\* frac(i, size): the position of sample i in a segment of size samples
frac(i, size) == Norm(i, size)

Point(x, y) == [x |-> x, y |-> y]

(***************************************************************************)
(* Construction.  ctor is the constructor call the caller made; self is    *)
(* the instance it produced.  Fields no constructor sets are indeterminate *)
(* until init or process_all writes them.                                  *)
(***************************************************************************)
Indeterminate == <<7, 1>>

IndeterminatePoint == Point(Indeterminate, Indeterminate)

IndeterminateCoef ==
    [c_x |-> Indeterminate, b_x |-> Indeterminate, a_x |-> Indeterminate,
     c_y |-> Indeterminate, b_y |-> Indeterminate, a_y |-> Indeterminate]

MkCtor(kind, a, exponent, constants, callback, cps) ==
    [kind |-> kind, a |-> a, exponent |-> exponent, constants |-> constants,
     callback |-> callback, cps |-> cps]

\* chebyshev_modulator<amplitude_fixed, 1>(amp, n_)
MkModulator(amp, n_) == MkCtor("chebyshev_modulator", amp, n_, <<>>, "", <<>>)

\* noise_modulator<amplitude_fixed>(amp, precision)
MkNoise(amp, precision) == MkCtor("noise_modulator", amp, precision, <<>>, "", <<>>)

\* chebyshev_modulator<amplitude_interpolated>(itp, n_); the callback field
\* names the interpolator class the amplitude points to
MkInterpolatedModulator(n_) ==
    MkCtor("chebyshev_modulator", Zero, n_, <<>>, "interpolator", <<>>)

\* a constructor that lets any control-point list through
Construct_unchecked(c) ==
    [kind |-> c.kind,
     ok |-> TRUE,
     a |-> c.a, exponent |-> c.exponent, constants |-> c.constants,
     callback |-> c.callback,
     _amplitude |-> c.a, n |-> c.exponent,
     cp |-> IF c.kind = "cubic_spline" THEN <<>> ELSE c.cps,
     _control_points |-> IF c.kind = "cubic_spline" THEN c.cps ELSE <<>>,
     _cp1 |-> IndeterminatePoint, _cp2 |-> IndeterminatePoint,
     coef |-> IndeterminateCoef,
     definition |-> 0,
     y_start |-> Indeterminate, y_destination |-> Indeterminate,
     abs_diff |-> Indeterminate, offset |-> Indeterminate]

\* the member-initialiser lists; cubic_spline_curve throws on fewer than 3 points
Construct(c) ==
    [kind |-> c.kind,
     ok |-> ~(c.kind = "cubic_spline" /\ Len(c.cps) < 3),
     a |-> c.a, exponent |-> c.exponent, constants |-> c.constants,
     callback |-> c.callback,
     _amplitude |-> c.a, n |-> c.exponent,
     cp |-> IF c.kind = "cubic_spline" THEN <<>> ELSE c.cps,
     _control_points |-> IF c.kind = "cubic_spline" THEN c.cps ELSE <<>>,
     _cp1 |-> IndeterminatePoint, _cp2 |-> IndeterminatePoint,
     coef |-> IndeterminateCoef,
     definition |-> 0,
     y_start |-> Indeterminate, y_destination |-> Indeterminate,
     abs_diff |-> Indeterminate, offset |-> Indeterminate]

(***************************************************************************)
(* curve_base: scale and init                                              *)
(***************************************************************************)
\* scale without the mirroring of a falling segment
scale_unmirrored(s, y) == Add(Mul(y, s.abs_diff), s.offset)

\* a scale that mirrors the rising segment instead of the falling one
scale_inverted(s, y) ==
    LET y1 == IF LT(s.y_start, s.y_destination) THEN Sub(One, y) ELSE y
    IN  Add(Mul(y1, s.abs_diff), s.offset)

scale(s, y) ==
    LET y1 == IF GT(s.y_start, s.y_destination) THEN Sub(One, y) ELSE y
    IN  Add(Mul(y1, s.abs_diff), s.offset)

\* coefficients drawn from 2 * control point, as a degree-2 Bezier would
quadratic_bezier_on_init_degree2(s) ==
    LET p == s.cp[1]
        c_x == Mul(<<2, 1>>, p.x)
        b_x == Neg(c_x)
        a_x == Sub(Sub(One, c_x), b_x)
        c_y == Mul(<<2, 1>>, Sub(p.y, s.y_start))
        b_y == Neg(c_y)
        a_y == Sub(Sub(Sub(s.y_destination, s.y_start), c_y), b_y)
    IN  [s EXCEPT !.coef = [c_x |-> c_x, b_x |-> b_x, a_x |-> a_x,
                            c_y |-> c_y, b_y |-> b_y, a_y |-> a_y]]

quadratic_bezier_on_init(s) ==
    LET p == s.cp[1]
        c_x == Mul(<<3, 1>>, p.x)
        b_x == Neg(c_x)
        a_x == Sub(Sub(One, c_x), b_x)
        c_y == Mul(<<3, 1>>, Sub(p.y, s.y_start))
        b_y == Neg(c_y)
        a_y == Sub(Sub(Sub(s.y_destination, s.y_start), c_y), b_y)
    IN  [s EXCEPT !.coef = [c_x |-> c_x, b_x |-> b_x, a_x |-> a_x,
                            c_y |-> c_y, b_y |-> b_y, a_y |-> a_y]]

\* for (i = 1; i < size; i++) points[i].x += points[i-1].x, on 1-based pts
RECURSIVE Accumulate(_, _)
Accumulate(pts, i) ==
    IF i > Len(pts) THEN pts
    ELSE Accumulate([pts EXCEPT ![i].x = Add(pts[i].x, pts[i - 1].x)], i + 1)

cubic_spline_on_init_appended(s) ==
    [s EXCEPT !._control_points =
        Accumulate(<<Point(Zero, s.y_start)>> \o s._control_points
                       \o <<Point(One, s.y_destination)>>, 2)]

cubic_spline_on_init(s) ==
    [s EXCEPT !._control_points =
        Accumulate(<<Point(Zero, s.y_start)>> \o s._control_points, 2)]

catmull_rom_on_init_flat(s) ==
    [s EXCEPT !._cp1 = Point(Zero, s.y_start), !._cp2 = Point(One, s.y_start)]

catmull_rom_on_init(s) ==
    [s EXCEPT !._cp1 = Point(Zero, s.y_start), !._cp2 = Point(One, s.y_destination)]

on_init(s) ==
    CASE s.kind = "quadratic_bezier" -> quadratic_bezier_on_init(s)
      [] s.kind = "cubic_spline" -> cubic_spline_on_init(s)
      [] s.kind = "catmull_rom" -> catmull_rom_on_init(s)
      [] OTHER -> s

\* an init that takes the larger end of the window as the offset
curve_base_init_top(s, y_start_, y_dest_) ==
    on_init([s EXCEPT !.y_start = y_start_,
                      !.y_destination = y_dest_,
                      !.abs_diff = AbsR(Sub(y_start_, y_dest_)),
                      !.offset = IF GT(y_start_, y_dest_) THEN y_start_ ELSE y_dest_])

curve_base_init(s, y_start_, y_dest_) ==
    on_init([s EXCEPT !.y_start = y_start_,
                      !.y_destination = y_dest_,
                      !.abs_diff = AbsR(Sub(y_start_, y_dest_)),
                      !.offset = MinR(y_start_, y_dest_)])

\* the t^2 coefficients taken with 3 * cp1 in place of 6 * cp1
cubic_bezier_init_halved(s, y_start_, y_dest_) ==
    LET p1 == s.cp[1]
        p2 == s.cp[2]
        three == <<3, 1>>
    IN  [s EXCEPT
          !.y_start = y_start_,
          !.y_destination = y_dest_,
          !.coef = [c_x |-> Add(Sub(Add(Zero, Mul(three, p1.x)), Mul(three, p2.x)), One),
                    b_x |-> Add(Sub(Zero, Mul(three, p1.x)), Mul(three, p2.x)),
                    a_x |-> Add(Zero, Mul(three, p1.x)),
                    c_y |-> Add(Sub(Add(Neg(y_start_), Mul(three, p1.y)),
                                    Mul(three, p2.y)), y_dest_),
                    b_y |-> Add(Sub(Mul(three, y_start_), Mul(three, p1.y)),
                                Mul(three, p2.y)),
                    a_y |-> Add(Mul(<<-3, 1>>, y_start_), Mul(three, p1.y))]]

\* the override: it sets neither abs_diff nor offset and calls no on_init
cubic_bezier_init(s, y_start_, y_dest_) ==
    LET p1 == s.cp[1]
        p2 == s.cp[2]
        three == <<3, 1>>
        six == <<6, 1>>
    IN  [s EXCEPT
          !.y_start = y_start_,
          !.y_destination = y_dest_,
          !.coef = [c_x |-> Add(Sub(Add(Zero, Mul(three, p1.x)), Mul(three, p2.x)), One),
                    b_x |-> Add(Sub(Zero, Mul(six, p1.x)), Mul(three, p2.x)),
                    a_x |-> Add(Zero, Mul(three, p1.x)),
                    c_y |-> Add(Sub(Add(Neg(y_start_), Mul(three, p1.y)),
                                    Mul(three, p2.y)), y_dest_),
                    b_y |-> Add(Sub(Mul(three, y_start_), Mul(six, p1.y)),
                                Mul(three, p2.y)),
                    a_y |-> Add(Mul(<<-3, 1>>, y_start_), Mul(three, p1.y))]]

init(s, y_start_, y_dest_) ==
    IF s.kind = "cubic_bezier" THEN cubic_bezier_init(s, y_start_, y_dest_)
    ELSE curve_base_init(s, y_start_, y_dest_)

(***************************************************************************)
(* process(x) of the simple curves                                         *)
(***************************************************************************)
diocles_process(s, x) == Sqrt(Div(Pow(x, 3), Sub(Mul(<<2, 1>>, s.a), x)))

cubic_process(x) == Pow(x, 3)

power_process(s, x) == Pow(x, s.exponent)

\* the callbacks a caller may pass: the README's x * x * x, and a constant
Callbacks == {"cube", "half"}

user_defined_process(s, x) ==
    IF s.callback = "cube" THEN Mul(x, Mul(x, x)) ELSE <<1, 2>>

\* res of vararg_polynomial::process after its loop (constants is 1-based here)
RECURSIVE PolyRes(_, _, _)
PolyRes(constants, x, i) ==
    IF i > Len(constants) THEN Zero
    ELSE Add(Mul(Pow(x, Len(constants) - (i - 1)), constants[i]),
             PolyRes(constants, x, i + 1))

\* vararg_polynomial::process ends without a return statement: the value the
\* caller reads is whatever the build leaves in the return register, res (the
\* last value computed) in one build and something else in another
NoReturn == {"res", "other"}

vararg_polynomial_process(s, x, u) ==
    IF u = "res" THEN PolyRes(s.constants, x, 1) ELSE Indeterminate

\* T_n(u), which is cos(n * acos(u)) on [-1, 1]
RECURSIVE Chebyshev(_, _)
Chebyshev(n, u) ==
    IF n = 0 THEN One
    ELSE IF n = 1 THEN u
    ELSE Sub(Mul(Mul(<<2, 1>>, u), Chebyshev(n - 1, u)), Chebyshev(n - 2, u))

chebyshev_process(s, x) ==
    LET u == Sub(Mul(x, <<2, 1>>), One)
    IN  IF LE(<<-1, 1>>, u) /\ LE(u, One) THEN Chebyshev(s.n, u) ELSE NaN

Throws(s) == s.kind \in {"quadratic_bezier", "cubic_bezier"}

(***************************************************************************)
(* noise_modulator::process.  size_t is 64 bits wide: a size_t is a        *)
(* sequence of four 16-bit digits, lowest first, and the double a size_t   *)
(* converts to is an integer of five such digits (2^64 is a double).       *)
(***************************************************************************)
Limb == 256 * 256

\* an int in 0..2^31-1 converted to size_t
ToU64(v) == <<v % Limb, v \div Limb, 0, 0>>

\* a - b in size_t: the borrow out of the top digit is dropped
RECURSIVE USub(_, _, _, _, _)
USub(a, b, k, borrow, out) ==
    IF k > 4 THEN out
    ELSE LET d == a[k] - b[k] - borrow
         IN  IF d < 0 THEN USub(a, b, k + 1, 1, Append(out, d + Limb))
             ELSE USub(a, b, k + 1, 0, Append(out, d))

\* the distance between neighbouring doubles at a size_t whose top digit is t:
\* 1 below 2^53, 2^11 from 2^63 on
RECURSIVE Spacing(_)
Spacing(t) == IF t < 32 THEN 1 ELSE 2 * Spacing(t \div 2)

RECURSIVE Carry(_, _)
Carry(l, k) ==
    IF k > 4 \/ l[k] < Limb THEN l
    ELSE Carry([l EXCEPT ![k] = @ - Limb, ![k + 1] = @ + 1], k + 1)

\* double(v) of a size_t v: round to nearest, ties to even
ToDouble(v) ==
    LET sp == Spacing(v[4])
        rem == v[1] % sp
        q == v[1] \div sp
        down == [v EXCEPT ![1] = @ - rem] \o <<0>>
        up == 2 * rem > sp \/ (2 * rem = sp /\ q % 2 = 1)
    IN  IF up THEN Carry([down EXCEPT ![1] = @ + sp], 1) ELSE down

\* a <= b for two doubles with integer values
RECURSIVE DoubleLE(_, _, _)
DoubleLE(a, b, k) ==
    IF k = 0 THEN TRUE
    ELSE IF a[k] # b[k] THEN a[k] < b[k]
    ELSE DoubleLE(a, b, k - 1)

\* ((rand() % (_precision*2)) - _precision) / double(_precision), rv being the
\* value of rand(); rv and _precision*2 are below 2^31, where the size_t
\* remainder is the integer remainder.  The quotient of the two doubles is
\* kept as the pair (num, den).
noise_process(s, rv) ==
    [num |-> ToDouble(USub(ToU64(rv % (s.exponent * 2)), ToU64(s.exponent),
                           1, 0, <<>>)),
     den |-> ToDouble(ToU64(s.exponent))]

\* the virtual process(double); u is the build's outcome of the missing return
process(s, x, u) ==
    CASE s.kind = "diocles" -> diocles_process(s, x)
      [] s.kind = "cubic" -> cubic_process(x)
      [] s.kind = "power" -> power_process(s, x)
      [] s.kind = "user_defined" -> user_defined_process(s, x)
      [] s.kind = "polynomial" -> vararg_polynomial_process(s, x, u)
      [] s.kind = "chebyshev_modulator" -> chebyshev_process(s, x)
      [] OTHER -> x

Builds(c) == IF c.kind = "polynomial" THEN NoReturn ELSE {"res"}

(***************************************************************************)
(* The parametric evaluators                                               *)
(***************************************************************************)
quadratic_process_bezier(s, x) ==
    Point(Add(Add(Mul(s.coef.a_x, Pow(x, 3)), Mul(s.coef.b_x, Pow(x, 2))),
              Mul(s.coef.c_x, x)),
          Add(Add(Add(Mul(s.coef.a_y, Pow(x, 3)), Mul(s.coef.b_y, Pow(x, 2))),
                  Mul(s.coef.c_y, x)), s.y_start))

cubic_process_bezier(s, x) ==
    Point(Add(Add(Mul(Pow(x, 3), s.coef.c_x), Mul(Pow(x, 2), s.coef.b_x)),
              Mul(x, s.coef.a_x)),
          Add(Add(Add(Mul(Pow(x, 3), s.coef.c_y), Mul(Pow(x, 2), s.coef.b_y)),
                  Mul(x, s.coef.a_y)), s.y_start))

\* one coordinate of the four-point blend; p0, p1, p2, p3 are that coordinate
CatmullBlend(p0, p1, p2, p3, x) ==
    Mul(<<1, 2>>,
        Add(Add(Add(Mul(p1, <<2, 1>>), Mul(Add(Neg(p0), p2), x)),
                Mul(Sub(Add(Sub(Mul(p0, <<2, 1>>), Mul(p1, <<5, 1>>)),
                            Mul(p2, <<4, 1>>)), p3),
                    Mul(x, x))),
            Mul(Add(Sub(Add(Neg(p0), Mul(p1, <<3, 1>>)), Mul(p2, <<3, 1>>)), p3),
                Mul(Mul(x, x), x))))

process_catmul_rom(s, x) ==
    Point(CatmullBlend(s.cp[1].x, s._cp1.x, s._cp2.x, s.cp[2].x, x),
          CatmullBlend(s.cp[1].y, s._cp1.y, s._cp2.y, s.cp[2].y, x))

\* the virtual process_bezier, and Catmull-Rom's own evaluator
Parametric(s, t) ==
    CASE s.kind = "quadratic_bezier" -> quadratic_process_bezier(s, t)
      [] s.kind = "cubic_bezier" -> cubic_process_bezier(s, t)
      [] s.kind = "catmull_rom" -> process_catmul_rom(s, t)
      [] OTHER -> Point(t, Zero)

\* where x lies between x1 and x2, as a fraction of the way
relative_position(x1, x2, x) == Div(Sub(x, x1), Sub(x2, x1))

linear_interpolation(y1, y2, x) == Add(y1, Mul(x, Sub(y2, y1)))

(***************************************************************************)
(* process_all: each variant returns the instance as it leaves it, the     *)
(* samples it wrote in order, and the value it returns (max).  For the     *)
(* marching variants cnt is the counter at return, iters the number of     *)
(* times the inner loop body ran, evals the numerators k of the parameters *)
(* k/size the evaluator was called with, and picks the counter and cached  *)
(* pair each sample was produced from.                                     *)
(***************************************************************************)
\* a peak tracker that compares signed samples
Peak_signed(max, res) == IF GT(res, max) THEN res ELSE max

Peak(max, res) == IF GT(AbsR(res), max) THEN AbsR(res) ELSE max

\* an end-inclusive loop: sample i is taken at (i + 1) / size
RECURSIVE DefaultLoop_shifted(_, _, _, _, _)
DefaultLoop_shifted(s, size, i, u, out) ==
    IF i >= size THEN out
    ELSE LET res == scale(s, process(s, frac(i + 1, size), u))
         IN  DefaultLoop_shifted(s, size, i + 1, u,
                                 [samples |-> Append(out.samples, res),
                                  max |-> Peak(out.max, res)])

RECURSIVE DefaultLoop(_, _, _, _, _)
DefaultLoop(s, size, i, u, out) ==
    IF i >= size THEN out
    ELSE LET res == scale(s, process(s, frac(i, size), u))
         IN  DefaultLoop(s, size, i + 1, u,
                         [samples |-> Append(out.samples, res),
                          max |-> Peak(out.max, res)])

curve_base_process_all(s, size, u) ==
    LET s1 == [s EXCEPT !.definition = size]
        out == DefaultLoop(s1, size, 0, u, [samples |-> <<>>, max |-> Zero])
    IN  [self |-> s1, samples |-> out.samples, max |-> out.max,
         cnt |-> 0, iters |-> 0, evals |-> {}, picks |-> <<>>]

\* interpolator::interpolate, the only interpolator that can be constructed
interpolate(x) == Zero

\* amplitude_fixed::get_amplitude and amplitude_interpolated::get_amplitude
get_amplitude(s, x) ==
    IF s.callback = "interpolator" THEN interpolate(x) ELSE s._amplitude

\* a loop that runs its product through scale
RECURSIVE ModulatorLoop_scaled(_, _, _, _)
ModulatorLoop_scaled(s, size, i, out) ==
    IF i >= size THEN out
    ELSE LET x == frac(i, size)
             res == scale(s, Mul(get_amplitude(s, x), process(s, x, "res")))
         IN  ModulatorLoop_scaled(s, size, i + 1,
                                  [samples |-> Append(out.samples, res),
                                   max |-> Peak(out.max, res)])

RECURSIVE ModulatorLoop(_, _, _, _)
ModulatorLoop(s, size, i, out) ==
    IF i >= size THEN out
    ELSE LET x == frac(i, size)
             res == Mul(get_amplitude(s, x), process(s, x, "res"))
         IN  ModulatorLoop(s, size, i + 1,
                           [samples |-> Append(out.samples, res),
                            max |-> Peak(out.max, res)])

modulator_base_process_all(s, size) ==
    LET out == ModulatorLoop(s, size, 0, [samples |-> <<>>, max |-> Zero])
    IN  [self |-> s, samples |-> out.samples, max |-> out.max,
         cnt |-> 0, iters |-> 0, evals |-> {}, picks |-> <<>>]

\* an inner while that evaluates one step ahead of the counter
RECURSIVE MarchWhile_ahead(_, _, _, _)
MarchWhile_ahead(s, size, x, st) ==
    IF st.cnt < size /\ ~(LE(st.r1.x, x) /\ GE(st.r2.x, x))
    THEN MarchWhile_ahead(s, size, x,
                          [cnt |-> st.cnt + 1,
                           iters |-> st.iters + 1,
                           r1 |-> Parametric(s, Norm(st.cnt + 1, size)),
                           r2 |-> Parametric(s, Norm(st.cnt + 2, size)),
                           evals |-> st.evals \cup {st.cnt + 1, st.cnt + 2}])
    ELSE st

\* a bracket test that is strict on the left
RECURSIVE MarchWhile_strict(_, _, _, _)
MarchWhile_strict(s, size, x, st) ==
    IF st.cnt < size /\ ~(LT(st.r1.x, x) /\ GE(st.r2.x, x))
    THEN MarchWhile_strict(s, size, x,
                           [cnt |-> st.cnt + 1,
                            iters |-> st.iters + 1,
                            r1 |-> Parametric(s, Norm(st.cnt, size)),
                            r2 |-> Parametric(s, Norm(st.cnt + 1, size)),
                            evals |-> st.evals \cup {st.cnt, st.cnt + 1}])
    ELSE st

\* the inner while: march until the cached pair brackets x or cnt reaches size
RECURSIVE MarchWhile(_, _, _, _)
MarchWhile(s, size, x, st) ==
    IF st.cnt < size /\ ~(LE(st.r1.x, x) /\ GE(st.r2.x, x))
    THEN MarchWhile(s, size, x,
                    [cnt |-> st.cnt + 1,
                     iters |-> st.iters + 1,
                     r1 |-> Parametric(s, Norm(st.cnt, size)),
                     r2 |-> Parametric(s, Norm(st.cnt + 1, size)),
                     evals |-> st.evals \cup {st.cnt, st.cnt + 1}])
    ELSE st

\* an outer loop that stops one sample early
RECURSIVE MarchFor_short(_, _, _, _, _)
MarchFor_short(s, size, i, st, out) ==
    IF i >= size - 1 THEN [st |-> st, out |-> out]
    ELSE LET x == Norm(i, size)
             Emit(st2) ==
                 LET relative_x == relative_position(st2.r1.x, st2.r2.x, x)
                     Write(linear_interp) ==
                         MarchFor_short(s, size, i + 1, st2,
                                        [samples |-> Append(out.samples, linear_interp),
                                         max |-> Peak(out.max, linear_interp),
                                         picks |-> Append(out.picks,
                                                          [cnt |-> st2.cnt, r1 |-> st2.r1,
                                                           r2 |-> st2.r2])])
                 IN  Write(linear_interpolation(st2.r1.y, st2.r2.y, relative_x))
         IN  Emit(MarchWhile(s, size, x, st))

RECURSIVE MarchFor(_, _, _, _, _)
MarchFor(s, size, i, st, out) ==
    IF i >= size THEN [st |-> st, out |-> out]
    ELSE LET x == Norm(i, size)
             Emit(st2) ==
                 LET relative_x == relative_position(st2.r1.x, st2.r2.x, x)
                     Write(linear_interp) ==
                         MarchFor(s, size, i + 1, st2,
                                  [samples |-> Append(out.samples, linear_interp),
                                   max |-> Peak(out.max, linear_interp),
                                   picks |-> Append(out.picks,
                                                    [cnt |-> st2.cnt, r1 |-> st2.r1,
                                                     r2 |-> st2.r2])])
                 IN  Write(linear_interpolation(st2.r1.y, st2.r2.y, relative_x))
         IN  Emit(MarchWhile(s, size, x, st))

Marching(s, size, r1, r2) ==
    LET Result(fin) ==
            [self |-> s, samples |-> fin.out.samples, max |-> fin.out.max,
             cnt |-> fin.st.cnt, iters |-> fin.st.iters, evals |-> fin.st.evals,
             picks |-> fin.out.picks]
    IN  Result(MarchFor(s, size, 0,
                        [cnt |-> 0, iters |-> 0, r1 |-> r1, r2 |-> r2,
                         evals |-> {0, 1}],
                        [samples |-> <<>>, max |-> Zero, picks |-> <<>>]))

bezier_process_all(s, size) ==
    Marching(s, size, Parametric(s, Norm(0, size)), Parametric(s, Norm(1, size)))

catmull_rom_process_all(s, size) ==
    Marching(s, size, Parametric(s, Zero), Parametric(s, Div(One, Norm(size, 1))))

(***************************************************************************)
(* cubic_spline<double>::interpolate_from_points(points, size, scale_by):  *)
(* one y per output sample index.  A natural cubic spline through the      *)
(* knots, sampled at x = i/size * scale_by.x, y scaled by scale_by.y.      *)
(***************************************************************************)
\* second derivatives: the forward sweep over the interior knots 2..n-1
RECURSIVE SplineSweep(_, _, _, _)
SplineSweep(pts, i, y2, u) ==
    IF i >= Len(pts) THEN [y2 |-> y2, u |-> u]
    ELSE LET span == Sub(pts[i + 1].x, pts[i - 1].x)
             sig == Div(Sub(pts[i].x, pts[i - 1].x), span)
             p == Add(Mul(sig, y2[i - 1]), <<2, 1>>)
             slopes == Sub(Div(Sub(pts[i + 1].y, pts[i].y), Sub(pts[i + 1].x, pts[i].x)),
                           Div(Sub(pts[i].y, pts[i - 1].y), Sub(pts[i].x, pts[i - 1].x)))
             ui == Div(Sub(Div(Mul(<<6, 1>>, slopes), span), Mul(sig, u[i - 1])), p)
         IN  SplineSweep(pts, i + 1, Append(y2, Div(Sub(sig, One), p)), Append(u, ui))

\* the back substitution, from knot k down to 1
RECURSIVE SplineBack(_, _, _)
SplineBack(k, y2, u) ==
    IF k < 1 THEN y2
    ELSE SplineBack(k - 1, [y2 EXCEPT ![k] = Add(Mul(y2[k], y2[k + 1]), u[k])], u)

SplineSecond(pts) ==
    LET sw == SplineSweep(pts, 2, <<Zero>>, <<Zero>>)
    IN  SplineBack(Len(pts) - 1, Append(sw.y2, Zero), Append(sw.u, Zero))

\* the last knot interval whose left end is at or before x (the first otherwise)
RECURSIVE SplinePiece(_, _, _)
SplinePiece(pts, x, k) ==
    IF k <= 1 THEN 1
    ELSE IF LE(pts[k].x, x) THEN k ELSE SplinePiece(pts, x, k - 1)

SplineAt(pts, y2, x) ==
    LET lo == SplinePiece(pts, x, Len(pts) - 1)
        hi == lo + 1
        h == Sub(pts[hi].x, pts[lo].x)
        a == Div(Sub(pts[hi].x, x), h)
        b == Div(Sub(x, pts[lo].x), h)
    IN  Add(Add(Mul(a, pts[lo].y), Mul(b, pts[hi].y)),
            Div(Mul(Add(Mul(Sub(cubed(a), a), y2[lo]), Mul(Sub(cubed(b), b), y2[hi])),
                    squared(h)), <<6, 1>>))

interpolate_from_points(pts, size, scale_by) ==
    LET y2 == SplineSecond(pts)
    IN  [i \in 1..size |->
            Mul(SplineAt(pts, y2, Mul(frac(i - 1, size), scale_by.x)), scale_by.y)]

RECURSIVE SplineLoop(_, _, _, _)
SplineLoop(res, size, i, out) ==
    IF i >= size THEN out
    ELSE SplineLoop(res, size, i + 1,
                    [samples |-> Append(out.samples, res[i + 1]),
                     max |-> Peak(out.max, res[i + 1])])

cubic_spline_process_all(s, size) ==
    LET res == interpolate_from_points(s._control_points, size, Point(One, One))
        out == SplineLoop(res, size, 0, [samples |-> <<>>, max |-> Zero])
    IN  [self |-> s, samples |-> out.samples, max |-> out.max,
         cnt |-> 0, iters |-> 0, evals |-> {}, picks |-> <<>>]

\* the virtual process_all(size, it)
process_all(s, size, u) ==
    CASE s.kind \in {"quadratic_bezier", "cubic_bezier"} -> bezier_process_all(s, size)
      [] s.kind = "catmull_rom" -> catmull_rom_process_all(s, size)
      [] s.kind = "cubic_spline" -> cubic_spline_process_all(s, size)
      [] s.kind = "chebyshev_modulator" -> modulator_base_process_all(s, size)
      [] OTHER -> curve_base_process_all(s, size, u)

(***************************************************************************)
(* The inputs                                                              *)
(***************************************************************************)
\* (y_start, y_end) windows of a render: rising, and falling through zero
Windows == {<<Zero, One>>, <<One, R(-1, 1)>>}

\* and for single evaluations also a flat one and one that rises from below
EvalWindows == Windows \cup {<<One, One>>, <<R(-1, 2), R(3, 2)>>}

Simple(kind) == MkCtor(kind, Zero, 0, <<>>, "", <<>>)

Diocles(a) == MkCtor("diocles", a, 0, <<>>, "", <<>>)

Power(e) == MkCtor("power", Zero, e, <<>>, "", <<>>)

UserDefined(f) == MkCtor("user_defined", Zero, 0, <<>>, f, <<>>)

Polynomial(k) == MkCtor("polynomial", Zero, 0, k, "", <<>>)

QuadraticBezier(p) == MkCtor("quadratic_bezier", Zero, 0, <<>>, "", <<p>>)

CubicBezier(p1, p2) == MkCtor("cubic_bezier", Zero, 0, <<>>, "", <<p1, p2>>)

CatmullRom(p0, p3) == MkCtor("catmull_rom", Zero, 0, <<>>, "", <<p0, p3>>)

CubicSpline(ps) == MkCtor("cubic_spline", Zero, 0, <<>>, "", ps)

\* typed_curve(type_); its process needs log_exp_point, which utilities.h holds
Typed(type_) == MkCtor("typed", type_, 0, <<>>, "", <<>>)

\* the default of noise_modulator's precision argument
DefaultPrecision == 256

\* the largest value of rand()
RAND_MAX == 2147483647

\* values rand() returns
RandValues == {0, 1, 2, 3, 5, 255, 256, 511, 512, 1000, RAND_MAX - 1, RAND_MAX}

\* a control point list with a negative x offset
BackwardSplinePoints ==
    <<Point(R(1, 2), One), Point(R(-1, 4), Zero), Point(R(3, 4), One)>>

\* parameters outside the ranges the documentation gives
OutOfRangeCtors ==
    {Diocles(R(1, 2)), Diocles(R(1, 4)), Typed(R(11, 1)), Typed(R(-21, 2)),
     CatmullRom(Point(R(1, 4), Zero), Point(R(3, 4), One)),
     CatmullRom(Point(R(-1, 1), Zero), Point(R(1, 2), One))}

\* control-point lists of 3 and 4 points (relative x offsets that sum to 1)
SplinePoints ==
    {<<Point(R(1, 4), R(1, 2)), Point(R(1, 4), Zero), Point(R(1, 2), One)>>,
     <<Point(R(1, 4), One), Point(R(1, 4), R(1, 4)), Point(R(1, 4), R(3, 4)),
       Point(R(1, 4), One)>>}

\* and lists the constructor refuses
ShortSplinePoints ==
    {<<>>, <<Point(R(1, 2), One)>>, <<Point(R(1, 2), R(1, 2)), Point(R(1, 2), One)>>}

\* the shapes rendered: every process_all variant, x-monotonic control points
\* and control points that make the parametric x turn back
Ctors ==
    {Simple("linear"), Diocles(R(5, 8)),
     UserDefined("half"), Polynomial(<<One, R(-1, 2)>>),
     MkModulator(R(1, 2), 3), MkInterpolatedModulator(2),
     QuadraticBezier(Point(R(1, 4), One)),
     CubicBezier(Point(R(1, 4), R(3, 4)), Point(R(3, 4), R(1, 4))),
     CubicBezier(Point(R(3, 2), One), Point(R(-1, 2), Zero)),
     CatmullRom(Point(R(-2, 1), R(-1, 2)), Point(R(2, 1), R(1, 4))),
     CatmullRom(Point(R(5, 1), One), Point(R(-4, 1), Zero))}
    \cup {CubicSpline(ps) : ps \in SplinePoints}

\* the shapes evaluated at single points, and the constructor calls that throw
EvalCtors ==
    Ctors
    \cup {Simple("cubic"), Power(2), Power(3), Diocles(One), Diocles(R(5, 2)),
          UserDefined("cube"),
          Polynomial(<<R(1, 2), Zero, R(1, 2)>>),
          QuadraticBezier(Point(R(3, 4), R(-1, 2))), Typed(R(2, 1))}
    \cup OutOfRangeCtors
    \cup {CubicSpline(BackwardSplinePoints)}
    \cup {MkNoise(One, DefaultPrecision), MkNoise(One, 1), MkNoise(R(1, 2), 3)}
    \cup {CubicSpline(ps) : ps \in ShortSplinePoints}

\* the x a caller evaluates process(x) at
Probes == {Zero, R(1, 4), R(1, 2), One}

(***************************************************************************)
(* The state machine                                                       *)
(***************************************************************************)
NoCall ==
    [op |-> "none", size |-> 0, base |-> 1, max |-> Zero,
     cnt |-> 0, iters |-> 0, evals |-> {}, picks |-> <<>>,
     x |-> Zero, raw |-> Zero, value |-> Zero, threw |-> FALSE,
     i |-> 0, args |-> <<>>, path |-> "none", rv |-> 0, noise |-> [num |-> <<0, 0, 0, 0, 0>>, den |-> <<1, 0, 0, 0, 0>>]]

\* no curve is being composed, no render shares a shape
NoCurve ==
    [status |-> "none", definition |-> 0, y_start |-> Zero, segs |-> <<>>,
     build |-> "res", counts |-> <<>>, pos |-> 0, samples |-> <<>>,
     rendered |-> <<>>]

NoRenders ==
    [shared |-> FALSE, shape |-> Simple("linear"), build |-> "res", size |-> 0,
     inst |-> <<>>, pc |-> <<>>, by |-> <<>>, latest |-> <<>>, out |-> <<>>,
     serial |-> <<>>]

Constructed(cs) ==
    /\ ctor \in cs
    /\ build \in Builds(ctor)
    /\ self = Construct(ctor)
    /\ buf = [i \in 1..BufLen |-> Zero]
    /\ it = 1
    /\ last = NoCall
    /\ ninit = 0
    /\ crv = NoCurve
    /\ rnd = NoRenders

Init == Constructed(Ctors)

InitEval == Constructed(EvalCtors)

\* shape.init(y_start, y_end)
CallInit(w) ==
    /\ self.ok
    /\ ninit < MaxInits
    /\ self' = init(self, w[1], w[2])
    /\ ninit' = ninit + 1
    /\ last' = [NoCall EXCEPT !.op = "init"]
    /\ UNCHANGED <<ctor, build, buf, it, crv, rnd>>

\* shape.process_all(size, it), the caller having room for size samples at it
CallProcessAll(size) ==
    /\ self.ok
    /\ ninit > 0
    /\ it - 1 + size <= BufLen
    /\ \E r \in {process_all(self, size, build)} :
           /\ self' = r.self
           /\ buf' = [k \in 1..BufLen |->
                        IF k >= it /\ k < it + Len(r.samples)
                        THEN r.samples[k - it + 1] ELSE buf[k]]
           /\ it' = it + Len(r.samples)
           /\ last' = [NoCall EXCEPT !.op = "process_all", !.size = size,
                                     !.base = it, !.max = r.max,
                                     !.cnt = r.cnt, !.iters = r.iters,
                                     !.evals = r.evals,
                                     !.picks = r.picks]
    /\ UNCHANGED <<ctor, build, ninit, crv, rnd>>

\* shape.process(x), and the value scale gives it (typed_curve::process is
\* left out: it is log_exp_point of utilities.h)
CallProcess(x) ==
    /\ self.ok
    /\ ninit > 0
    /\ self.kind \notin {"typed", "noise_modulator"}
    /\ last' = IF Throws(self)
               THEN [NoCall EXCEPT !.op = "process", !.x = x, !.threw = TRUE]
               ELSE [NoCall EXCEPT !.op = "process", !.x = x,
                                   !.raw = process(self, x, build),
                                   !.value = scale(self, process(self, x, build))]
    /\ UNCHANGED <<ctor, build, self, buf, it, ninit, crv, rnd>>

\* rendering: init, then process_all through the shared iterator
Next ==
    \/ \E w \in Windows : CallInit(w)
    \/ \E size \in 0..MaxSize : CallProcessAll(size)

Spec == Init /\ [][Next]_vars

\* noise_modulator::process(x), rand() returning rv; x is not read
CallNoise(rv) ==
    /\ self.kind = "noise_modulator"
    /\ ninit > 0
    /\ last' = [NoCall EXCEPT !.op = "noise", !.rv = rv,
                              !.noise = noise_process(self, rv)]
    /\ UNCHANGED <<ctor, build, self, buf, it, ninit, crv, rnd>>

\* shape.process(i, size): process(frac(i, size)) through the virtual
\* process(double) of the shape, which the Bezier base makes throw
CallProcessAt(i, size) ==
    /\ self.ok
    /\ ninit > 0
    /\ self.kind \notin {"typed", "noise_modulator"}
    /\ last' = IF Throws(self)
               THEN [NoCall EXCEPT !.op = "process_at", !.i = i, !.size = size,
                                   !.x = frac(i, size), !.threw = TRUE]
               ELSE [NoCall EXCEPT !.op = "process_at", !.i = i, !.size = size,
                                   !.x = frac(i, size),
                                   !.raw = process(self, frac(i, size), build)]
    /\ UNCHANGED <<ctor, build, self, buf, it, ninit, crv, rnd>>

\* single-sample evaluation
NextEval ==
    \/ \E w \in EvalWindows : CallInit(w)
    \/ \E x \in Probes : CallProcess(x)
    \/ \E rv \in RandValues : CallNoise(rv)
    \/ \E size \in 1..MaxSize : \E i \in 0..(size - 1) : CallProcessAt(i, size)

SpecEval == InitEval /\ [][NextEval]_vars

(***************************************************************************)
(* The composer: a curve of segments.  core.h is not among the sources;    *)
(* segment and curve follow their description: a segment of fraction f     *)
(* gets round(f * definition) samples, the last one what remains, and is   *)
(* rendered by init(running_y, y_destination) then process_all(count).     *)
(***************************************************************************)
MaxDefinition == 4

\* segment(fraction, y_destination, shape)
Segment(fraction, y_destination, shape) ==
    [fraction |-> fraction, y_destination |-> y_destination, shape |-> shape]

\* round to nearest, halves away from zero, of a value >= 0
Round(q) == (2 * q[1] + q[2]) \div (2 * q[2])

RECURSIVE SumSeq(_, _)
SumSeq(q, k) == IF k = 0 THEN 0 ELSE SumSeq(q, k - 1) + q[k]

\* every segment rounds, the last one too
Counts_rounded(segs, definition) ==
    [k \in 1..Len(segs) |-> Round(Mul(segs[k].fraction, R(definition, 1)))]

\* the sample count of each segment: round(f * definition), and for the last
\* segment the samples the others left
Counts(segs, definition) ==
    LET rounded == [k \in 1..Len(segs) |->
                       Round(Mul(segs[k].fraction, R(definition, 1)))]
    IN  [k \in 1..Len(segs) |->
            IF k < Len(segs) THEN rounded[k]
            ELSE definition - SumSeq(rounded, Len(segs) - 1)]

\* fraction lists: summing to 1 (the test program's four quarters), above 1
\* and below 1
FractionLists ==
    {<<One>>, <<R(1, 2), R(1, 2)>>, <<R(1, 4), R(1, 4), R(1, 4), R(1, 4)>>,
     <<One, One>>, <<One, One, R(1, 2)>>, <<R(1, 4), R(1, 4)>>,
     <<R(1, 8), R(1, 8), R(1, 8)>>}

\* the targets of the test program's curve c, in order
Targets == <<One, R(1, 2), One, Zero>>

\* the shapes a segment is given
SegmentShapes ==
    {Simple("linear"), Simple("cubic"), Power(2), Diocles(One),
     Polynomial(<<One, R(-1, 2)>>), Polynomial(<<One, Zero>>),
     UserDefined("half"), MkModulator(R(1, 2), 3),
     QuadraticBezier(Point(R(1, 4), One)),
     CatmullRom(Point(R(-2, 1), R(-1, 2)), Point(R(2, 1), R(1, 4))),
     CatmullRom(Point(R(5, 1), One), Point(R(-4, 1), Zero)),
     CubicSpline(<<Point(R(1, 4), R(1, 2)), Point(R(1, 4), Zero),
                   Point(R(1, 2), One)>>)}

\* curve(definition, y_start, segments), every segment with a shape instance
\* of its own
Curves ==
    {[NoCurve EXCEPT !.status = "constructed", !.definition = d,
                     !.y_start = y0, !.build = u,
                     !.segs = [k \in 1..Len(fl) |->
                                 Segment(fl[k], Targets[k], shape)]] :
        d \in 1..MaxDefinition, y0 \in {Zero, One}, fl \in FractionLists,
        shape \in SegmentShapes, u \in NoReturn}

InitCurve ==
    /\ crv \in {c \in Curves : c.build \in Builds(c.segs[1].shape)}
    /\ ctor = Simple("linear")
    /\ build = "res"
    /\ self = Construct(ctor)
    /\ buf = [i \in 1..BufLen |-> Zero]
    /\ it = 1
    /\ last = NoCall
    /\ ninit = 0
    /\ rnd = NoRenders

\* the composer gives every segment its sample count
Allocate ==
    /\ crv.status = "constructed"
    /\ crv' = [crv EXCEPT !.status = "allocated",
                          !.counts = Counts(crv.segs, crv.definition)]
    /\ UNCHANGED <<ctor, build, self, buf, it, last, ninit, rnd>>

\* a render that starts every segment from the curve's y_start
RenderSegment_from_start ==
    /\ crv.status = "allocated"
    /\ crv.pos < Len(crv.segs)
    /\ \A k \in 1..Len(crv.counts) : crv.counts[k] >= 0
    /\ LET k == crv.pos + 1
           running_y == crv.y_start
       IN  \E r \in {process_all(init(Construct(crv.segs[k].shape), running_y,
                                      crv.segs[k].y_destination),
                                 crv.counts[k], crv.build)} :
              crv' = [crv EXCEPT
                        !.pos = k,
                        !.samples = @ \o r.samples,
                        !.rendered = Append(@, [running_y |-> running_y,
                                                offset |-> Len(crv.samples),
                                                count |-> Len(r.samples),
                                                max |-> r.max])]
    /\ UNCHANGED <<ctor, build, self, buf, it, last, ninit, rnd>>

\* segment render: the next segment's shape is initialised with the running y
\* and its target and fills its slice; a curve whose counts do not fit its
\* buffer is not rendered
RenderSegment ==
    /\ crv.status = "allocated"
    /\ crv.pos < Len(crv.segs)
    /\ \A k \in 1..Len(crv.counts) : crv.counts[k] >= 0
    /\ LET k == crv.pos + 1
           running_y == IF k = 1 THEN crv.y_start
                        ELSE crv.segs[k - 1].y_destination
       IN  \E r \in {process_all(init(Construct(crv.segs[k].shape), running_y,
                                      crv.segs[k].y_destination),
                                 crv.counts[k], crv.build)} :
              crv' = [crv EXCEPT
                        !.pos = k,
                        !.samples = @ \o r.samples,
                        !.rendered = Append(@, [running_y |-> running_y,
                                                offset |-> Len(crv.samples),
                                                count |-> Len(r.samples),
                                                max |-> r.max])]
    /\ UNCHANGED <<ctor, build, self, buf, it, last, ninit, rnd>>

NextCurve == Allocate \/ RenderSegment

SpecCurve == InitCurve /\ [][NextCurve]_vars

(***************************************************************************)
(* Two renders, each init(window) then process_all(size), on one shared    *)
(* shape instance or on an instance each, their calls interleaved in any   *)
(* order.                                                                  *)
(***************************************************************************)
Renders == {1, 2}

\* the window of each render
RenderWindows == <<<<Zero, One>>, <<One, R(-1, 1)>>>>

\* the shapes shared: default sampling, derived coefficients, on_init hooks
SharedShapes ==
    {Simple("linear"), Diocles(R(5, 8)), MkModulator(R(1, 2), 3),
     QuadraticBezier(Point(R(1, 4), One)),
     CubicBezier(Point(R(1, 4), R(3, 4)), Point(R(3, 4), R(1, 4))),
     CatmullRom(Point(R(-2, 1), R(-1, 2)), Point(R(2, 1), R(1, 4))),
     CubicSpline(<<Point(R(1, 4), R(1, 2)), Point(R(1, 4), Zero),
                   Point(R(1, 2), One)>>)}

\* the instance render r works on
Instance(r) == IF rnd.shared THEN 1 ELSE r

InitShared ==
    /\ \E sh \in BOOLEAN, c \in SharedShapes, n \in 1..MaxSize :
          rnd = [shared |-> sh, shape |-> c, build |-> "res", size |-> n,
                 inst |-> IF sh THEN <<Construct(c)>>
                          ELSE <<Construct(c), Construct(c)>>,
                 pc |-> <<"init", "init">>,
                 by |-> <<0, 0>>,
                 latest |-> IF sh THEN <<0>> ELSE <<0, 0>>,
                 out |-> <<<<>>, <<>>>>,
                 serial |-> <<TRUE, TRUE>>]
    /\ crv = NoCurve
    /\ ctor = Simple("linear")
    /\ build = "res"
    /\ self = Construct(ctor)
    /\ buf = [i \in 1..BufLen |-> Zero]
    /\ it = 1
    /\ last = NoCall
    /\ ninit = 0

\* render r calls init with its window; a render of the same instance that
\* has initialised and not yet sampled is no longer serialized
RenderInit(r) ==
    /\ rnd.pc[r] = "init"
    /\ rnd' = [rnd EXCEPT
                 !.inst[Instance(r)] =
                     init(@, RenderWindows[r][1], RenderWindows[r][2]),
                 !.latest[Instance(r)] = r,
                 !.pc[r] = "process_all",
                 !.serial = [q \in Renders |->
                               IF q # r /\ Instance(q) = Instance(r)
                                        /\ rnd.pc[q] = "process_all"
                               THEN FALSE ELSE @[q]]]
    /\ UNCHANGED <<ctor, build, self, buf, it, last, ninit, crv>>

\* render r calls process_all and keeps the samples
RenderProcessAll(r) ==
    /\ rnd.pc[r] = "process_all"
    /\ \E res \in {process_all(rnd.inst[Instance(r)], rnd.size, rnd.build)} :
          rnd' = [rnd EXCEPT
                    !.inst[Instance(r)] = res.self,
                    !.out[r] = res.samples,
                    !.by[r] = rnd.latest[Instance(r)],
                    !.pc[r] = "done",
                    !.serial = [q \in Renders |->
                                  IF q # r /\ Instance(q) = Instance(r)
                                           /\ rnd.pc[q] = "process_all"
                                  THEN FALSE ELSE @[q]]]
    /\ UNCHANGED <<ctor, build, self, buf, it, last, ninit, crv>>

NextShared ==
    \/ \E r \in Renders : RenderInit(r)
    \/ \E r \in Renders : RenderProcessAll(r)

SpecShared == InitShared /\ [][NextShared]_vars

(***************************************************************************)
(* Claims on single evaluations, under SpecEval                            *)
(***************************************************************************)
SimpleKinds == {"linear", "cubic", "power", "diocles", "polynomial", "user_defined"}

ParametricKinds == {"quadratic_bezier", "cubic_bezier", "catmull_rom"}

Evaluated == last.op = "process" /\ ~last.threw

\* C1: once init(y_start, y_end) has been called, every simple curve gives
\* scale(process(0)) = y_start and scale(process(1)) = y_end, and the parametric
\* point of the Bezier and Catmull-Rom shapes is (0, y_start) at t = 0 and
\* (1, y_end) at t = 1.
C1_EndpointsMeetWindow ==
    /\ (Evaluated /\ self.kind \in SimpleKinds /\ last.x = Zero)
          => last.value = self.y_start
    /\ (Evaluated /\ self.kind \in SimpleKinds /\ last.x = One)
          => last.value = self.y_destination
    /\ (ninit > 0 /\ self.kind \in ParametricKinds)
          => /\ Parametric(self, Zero) = Point(Zero, self.y_start)
             /\ Parametric(self, One) = Point(One, self.y_destination)

\* the value of the scaling law, from the window alone
Windowed(y_start_, y_end_, y) ==
    IF GT(y_start_, y_end_)
    THEN Add(Mul(Sub(One, y), AbsR(Sub(y_start_, y_end_))), MinR(y_start_, y_end_))
    ELSE Add(Mul(y, AbsR(Sub(y_start_, y_end_))), MinR(y_start_, y_end_))

\* C4: init(y_start, y_end) sets abs_diff = |y_start - y_end| and
\* offset = min(y_start, y_end) before the on_init hook runs (the hook sees the
\* new window), and scale(y) is (1 - y) * abs_diff + offset when
\* y_start > y_end and y * abs_diff + offset otherwise.
C4_InitThenScale ==
    /\ (ninit > 0 /\ self.kind # "cubic_bezier")
          => /\ self.abs_diff = AbsR(Sub(self.y_start, self.y_destination))
             /\ self.offset = MinR(self.y_start, self.y_destination)
    /\ (ninit > 0 /\ self.kind = "quadratic_bezier")
          => self.coef.c_y = Mul(<<3, 1>>, Sub(self.cp[1].y, self.y_start))
    /\ (ninit > 0 /\ self.kind = "catmull_rom")
          => /\ self._cp1 = Point(Zero, self.y_start)
             /\ self._cp2 = Point(One, self.y_destination)
    /\ (ninit > 0 /\ self.kind = "cubic_spline")
          => self._control_points[1] = Point(Zero, self.y_start)
    /\ Evaluated
          => last.value = Windowed(self.y_start, self.y_destination, last.raw)

\* a falling window, a raw value strictly inside (0, 1), mirrored by scale
C4_Witness ==
    /\ Evaluated
    /\ GT(self.y_start, self.y_destination)
    /\ GT(last.raw, Zero) /\ LT(last.raw, <<1, 2>>)
    /\ GT(last.value, Add(self.offset, Mul(<<1, 2>>, self.abs_diff)))

\* C7: constructing a cubic spline with fewer than 3 control points throws and
\* leaves no shape to use; with 3 or more control points it succeeds.
C7_SplineNeedsThreePoints ==
    ctor.kind = "cubic_spline"
       => /\ Len(ctor.cps) < 3 => (~self.ok /\ ninit = 0 /\ last = NoCall)
          /\ Len(ctor.cps) >= 3 => (self.ok /\ Len(self._control_points) >= 3)

\* the constructor was handed two points and threw
C7_Witness == ctor.kind = "cubic_spline" /\ Len(ctor.cps) = 2 /\ ~self.ok

\* the sum over i = 0..N-1 of coeff[i] * x^(N-i), highest power first
RECURSIVE PolySum(_, _, _)
PolySum(coeff, x, i) ==
    IF i >= Len(coeff) THEN Zero
    ELSE Add(PolySum(coeff, x, i + 1), Mul(coeff[i + 1], Pow(x, Len(coeff) - i)))

\* C9: process(x) of the polynomial built from N coefficients returns the sum
\* over i = 0..N-1 of coeff[i] * x^(N-i).
C9_PolynomialValue ==
    (Evaluated /\ self.kind = "polynomial")
       => last.raw = PolySum(ctor.constants, last.x, 0)

(***************************************************************************)
(* Claims on rendering, under Spec                                         *)
(***************************************************************************)
Rendered == last.op = "process_all"

\* the samples the last process_all call wrote, in order
Slice == [i \in 1..last.size |-> buf[last.base + i - 1]]

Tolerance == <<1, 64>>

Near(a, b) == LE(AbsR(Sub(a, b)), Tolerance)

\* C2 as stated: after init(s, e) and process_all(size) with size >= 1 the
\* first sample equals s and the last sample equals e, within tolerance.
C2_FirstAndLastSample ==
    (Rendered /\ last.size >= 1 /\ self.kind \in SimpleKinds \cup ParametricKinds
              \cup {"cubic_spline"})
       => /\ Near(Slice[1], self.y_start)
          /\ Near(Slice[last.size], self.y_destination)

\* C2 amended: the first sample equals s for the linear and Diocles shapes and
\* for a Bezier or Catmull-Rom shape whose parametric x at t = 1/size is
\* positive; sampling is end-exclusive, so the last sample of a default-loop
\* shape is scale(process((size - 1)/size)), which for linear is
\* s + (e - s) * (size - 1)/size and differs from e whenever s # e.
C2_EndExclusive ==
    (Rendered /\ last.size >= 1)
       => /\ self.kind \in {"linear", "diocles"} => Slice[1] = self.y_start
          /\ (/\ self.kind \in ParametricKinds
              /\ GT(Parametric(self, Norm(1, last.size)).x, Zero))
                => Slice[1] = self.y_start
          /\ self.kind \in {"linear", "diocles"}
                => Slice[last.size] =
                      Windowed(self.y_start, self.y_destination,
                               process(self, Norm(last.size - 1, last.size), build))
          /\ self.kind = "linear"
                => /\ Slice[last.size] =
                         Add(self.y_start,
                             Mul(Sub(self.y_destination, self.y_start),
                                 Norm(last.size - 1, last.size)))
                   /\ self.y_start # self.y_destination
                         => Slice[last.size] # self.y_destination

\* a linear segment of several samples stops short of its end value
C2_Witness ==
    /\ Rendered /\ last.size >= 2 /\ self.kind = "linear"
    /\ Slice[1] = self.y_start
    /\ ~Near(Slice[last.size], self.y_destination)

\* C3: the default process_all writes scale(process(i / N)) for i = 0..N-1 in
\* index order and nothing else; a linear segment of 4 samples from 0 to 1 is
\* 0, 0.25, 0.5, 0.75.
C3_DefaultSampling ==
    (Rendered /\ self.kind \in SimpleKinds)
       => /\ \A i \in 0..(last.size - 1) :
                Slice[i + 1] = Windowed(self.y_start, self.y_destination,
                                        process(self, Norm(i, last.size), build))
          /\ self.definition = last.size
          /\ (/\ self.kind = "linear" /\ last.size = 4
              /\ self.y_start = Zero /\ self.y_destination = One)
                => Slice = << <<0, 1>>, <<1, 4>>, <<1, 2>>, <<3, 4>> >>

\* the linear example has been rendered
C3_Witness ==
    /\ Rendered /\ self.kind = "linear" /\ last.size = 4
    /\ self.y_start = Zero /\ self.y_destination = One
    /\ Slice[4] = <<3, 4>>

\* the magnitudes of the samples that are numbers
Magnitudes == {AbsR(Slice[i]) : i \in {j \in 1..last.size : ~IsNaN(Slice[j])}}

\* C5: the value process_all returns is the largest |sample| among the samples
\* that call wrote; it is never negative, and it is 0 when size = 0 or every
\* written sample is 0.
C5_ReturnsPeak ==
    Rendered
       => /\ GE(last.max, Zero)
          /\ \A m \in Magnitudes : LE(m, last.max)
          /\ last.max \in Magnitudes \cup {Zero}
          /\ (last.size = 0 \/ \A i \in 1..last.size : Slice[i] = Zero)
                => last.max = Zero

\* a segment with a negative sample of the largest magnitude
C5_Witness ==
    /\ Rendered /\ last.size >= 2
    /\ \E i \in 1..last.size : LT(Slice[i], Zero) /\ AbsR(Slice[i]) = last.max
    /\ \E i \in 1..last.size : LT(AbsR(Slice[i]), last.max)

\* C6: a process_all(size, it) call writes size samples starting where the
\* iterator stood and leaves the iterator size positions further, touching
\* nothing outside that slice, so successive calls fill consecutive slices.
C6_WritesExactlySize ==
    [][last'.op = "process_all"
          => /\ it' = it + last'.size
             /\ last'.base = it
             /\ \A k \in 1..BufLen :
                   (k < it \/ k >= it + last'.size) => buf'[k] = buf[k]]_vars

\* a second segment rendered behind a first one
C6_Witness == Rendered /\ last.base > 1 /\ last.size >= 1 /\ it = last.base + last.size

\* what a newly constructed instance with the same parameters renders
Fresh == process_all(init(Construct(ctor), self.y_start, self.y_destination),
                     last.size, build)

\* C8: what process_all writes and returns depends only on the constructor
\* parameters, the last init(y_start, y_end) and size, not on earlier calls.
C8_HistoryIndependent ==
    Rendered => /\ Slice = Fresh.samples
                /\ last.max = Fresh.max

Bracketed(p, x) == LE(p.r1.x, x) /\ GE(p.r2.x, x)

\* the parts of the marching claim that do not mention the parameters
MarchingCore ==
    /\ last.cnt <= last.size
    /\ last.iters <= last.size
    /\ last.iters = last.cnt
    /\ Len(last.picks) = last.size
    /\ it = last.base + last.size
    /\ \A j \in 1..(last.size - 1) : last.picks[j].cnt <= last.picks[j + 1].cnt
    /\ \A j \in 1..last.size :
          LET p == last.picks[j]
              x == Norm(j - 1, last.size)
          IN  /\ p.cnt >= 1
                    => /\ p.r1 = Parametric(self, Norm(p.cnt - 1, last.size))
                       /\ p.r2 = Parametric(self, Norm(p.cnt, last.size))
              /\ p.cnt = 0
                    => /\ p.r1 = Parametric(self, Zero)
                       /\ p.r2 = Parametric(self, Norm(1, last.size))
              /\ p.cnt < last.size => Bracketed(p, x)

\* C10 as stated: in a Bezier or Catmull-Rom process_all of size N the counter
\* only grows and stays <= N, the inner body runs at most N times in total,
\* the evaluator is called only at k/N with 0 <= k <= N, a sample is read off
\* the pair cached when the marching stopped (the last pair once the counter
\* has reached N), and exactly N samples are written.
C10_MarchingAsStated ==
    (Rendered /\ self.kind \in ParametricKinds)
       => /\ MarchingCore
          /\ last.evals \subseteq 0..last.size

\* C10 amended: the same, with the parameters k/N, 0 <= k <= N, for N >= 1;
\* with N = 0 the two priming evaluations are made at 0/0 (0 for Catmull-Rom)
\* and 1/0 and no sample is written.
C10_MarchingTerminates ==
    (Rendered /\ self.kind \in ParametricKinds)
       => /\ MarchingCore
          /\ last.size >= 1 => last.evals \subseteq 0..last.size
          /\ last.size = 0 => (last.evals = {0, 1} /\ last.iters = 0)

\* the counter has run up to N and the last sample is read off the last pair
C10_Witness ==
    /\ Rendered /\ self.kind \in ParametricKinds /\ last.size >= 2
    /\ last.cnt = last.size
    /\ last.picks[last.size].cnt = last.size
    /\ last.picks[1].cnt < last.size

\* the parametric x does not decrease along the parameters k/size the march
\* visits, from x(0) = 0 to x(1) = 1
GridMonotone(s, size) ==
    /\ Parametric(s, Zero).x = Zero
    /\ Parametric(s, One).x = One
    /\ \A k \in 0..(size - 1) :
          LE(Parametric(s, Norm(k, size)).x, Parametric(s, Norm(k + 1, size)).x)

\* C11: in the Bezier and Catmull-Rom process_all, when the parametric x is
\* non-decreasing in t with x(0) = 0 and x(1) = 1, every sample i is the linear
\* interpolation between the cached samples of two consecutive parameters
\* k/size and (k+1)/size, and that pair brackets the output x:
\* r1.x <= i/size <= r2.x when sample i is written, for every i in [0, size).
C11_BracketWhenMonotone ==
    (Rendered /\ self.kind \in ParametricKinds /\ last.size >= 1
        /\ GridMonotone(self, last.size))
       => \A j \in 1..last.size :
             LET p == last.picks[j]
                 x == Norm(j - 1, last.size)
             IN  /\ Bracketed(p, x)
                 /\ \E k \in 0..(last.size - 1) :
                       /\ p.r1 = Parametric(self, Norm(k, last.size))
                       /\ p.r2 = Parametric(self, Norm(k + 1, last.size))
                 /\ Slice[j] = linear_interpolation(p.r1.y, p.r2.y,
                                   relative_position(p.r1.x, p.r2.x, x))

\* a monotone shape marched over several pairs, in a window other than (0, 1)
C11_Witness ==
    /\ Rendered /\ self.kind \in ParametricKinds /\ last.size >= 3
    /\ GridMonotone(self, last.size)
    /\ self.y_start = One
    /\ last.picks[1].cnt = 0
    /\ last.picks[last.size].cnt >= 2
    /\ Bracketed(last.picks[last.size], Norm(last.size - 1, last.size))

\* amplitude(x) of a modulator, from its constructor arguments alone
Amplitude(c, x) == IF c.callback = "interpolator" THEN Zero ELSE c.a

\* waveform(x) of the Chebyshev modulator of the first kind: cos(n acos(2x - 1))
Waveform(c, x) == Chebyshev(c.exponent, Sub(Mul(<<2, 1>>, x), One))

\* C14: a modulator's process_all(N) writes sample i = amplitude(i/N) *
\* waveform(i/N) for i = 0..N-1 (a * waveform(i/N) for a fixed amplitude a);
\* the samples do not depend on the window given to init: the scale law is
\* never applied.
C14_ModulatorSamples ==
    (Rendered /\ self.kind = "chebyshev_modulator")
       => /\ \A i \in 1..last.size :
                Slice[i] = Mul(Amplitude(ctor, Norm(i - 1, last.size)),
                               Waveform(ctor, Norm(i - 1, last.size)))
          /\ ctor.callback = ""
                => \A i \in 1..last.size :
                      Slice[i] = Mul(ctor.a, Waveform(ctor, Norm(i - 1, last.size)))

\* a fixed-amplitude modulator rendered in the window (1, -1), where the scale
\* law would mirror and stretch the samples
C14_Witness ==
    /\ Rendered /\ self.kind = "chebyshev_modulator" /\ last.size >= 3
    /\ ctor.callback = ""
    /\ self.y_start = One /\ self.y_destination = R(-1, 1)
    /\ Slice[1] = R(-1, 2)
    /\ Slice[1] # scale(self, Slice[1])

\* -1 <= num / den <= 1 for a quotient of doubles with integer values, den > 0
\* (num comes from a size_t and is never negative)
InUnit(q) == DoubleLE(q.num, q.den, 5)

\* C13: noise_modulator::process(x) lies in [-1, 1] for every value rand()
\* returns and every precision >= 1, the expression being evaluated in the
\* code's types: an int combined with a size_t, arithmetic modulo 2^64.
C13_NoiseInUnit == last.op = "noise" => InUnit(last.noise)

(***************************************************************************)
(* Claims on construction and on the spline and Catmull-Rom control points *)
(***************************************************************************)
\* the parameter ranges of the documentation: Diocles a > 0.5, Typed factor in
\* [-10, 10], Catmull-Rom outer points with x outside [0, 1]
InRange(c) ==
    CASE c.kind = "diocles" -> GT(c.a, <<1, 2>>)
      [] c.kind = "typed" -> GE(c.a, <<-10, 1>>) /\ LE(c.a, <<10, 1>>)
      [] c.kind = "catmull_rom" ->
            /\ ~(GE(c.cps[1].x, Zero) /\ LE(c.cps[1].x, One))
            /\ ~(GE(c.cps[2].x, Zero) /\ LE(c.cps[2].x, One))
      [] OTHER -> TRUE

\* C12: constructing Diocles with a <= 0.5, Typed with a factor outside
\* [-10, 10] or Catmull-Rom with an outer control point whose x is inside
\* [0, 1] fails with a construction error and leaves no usable shape.
C12_RangeChecked == ~InRange(ctor) => (~self.ok /\ ninit = 0)

\* C19: init(y_start, y_end) on a Catmull-Rom shape makes the inner control
\* points (0, y_start) and (1, y_end), and for every pair of outer control
\* points the blend is then exactly (0, y_start) at t = 0 and (1, y_end) at
\* t = 1.
C19_CatmullInnerPoints ==
    [][\A w \in EvalWindows :
          (CallInit(w) /\ self.kind = "catmull_rom")
             => /\ self'._cp1 = Point(Zero, w[1])
                /\ self'._cp2 = Point(One, w[2])
                /\ self'.cp = self.cp
                /\ process_catmul_rom(self', Zero) = Point(Zero, w[1])
                /\ process_catmul_rom(self', One) = Point(One, w[2])]_vars

C19_Witness ==
    /\ self.kind = "catmull_rom"
    /\ ninit > 0
    /\ last.op = "init"
    /\ self.cp = <<Point(R(5, 1), One), Point(R(-4, 1), Zero)>>
    /\ self._cp1 = Point(Zero, R(-1, 2))
    /\ self._cp2 = Point(One, R(3, 2))
    /\ process_catmul_rom(self, One) = Point(One, R(3, 2))

\* p_1.x + ... + p_k.x
RECURSIVE OffsetSum(_, _)
OffsetSum(pts, k) == IF k = 0 THEN Zero ELSE Add(OffsetSum(pts, k - 1), pts[k].x)

\* [(0, y_start), q_1, ..., q_n] with q_k = (p_1.x + ... + p_k.x, p_k.y)
Knots(pts, y_start_) ==
    [k \in 1..(Len(pts) + 1) |->
        IF k = 1 THEN Point(Zero, y_start_)
        ELSE Point(OffsetSum(pts, k - 1), pts[k - 1].y)]

NonNegativeOffsets(pts) == \A k \in 1..Len(pts) : GE(pts[k].x, Zero)

C18_KnotsAtGivenX ==
    (self.kind = "cubic_spline" /\ ninit = 1)
       => \A k \in 1..Len(ctor.cps) :
             \E j \in 1..Len(self._control_points) :
                self._control_points[j] = ctor.cps[k]

(***************************************************************************)
(* Claims on the composer, under SpecCurve                                 *)
(***************************************************************************)
Allocated == crv.status = "allocated"

PreviousTarget(k) ==
    IF k = 1 THEN crv.y_start ELSE crv.segs[k - 1].y_destination

\* the shape of segment k as its render initialises it
SegmentShape(k) ==
    init(Construct(crv.segs[k].shape), PreviousTarget(k), crv.segs[k].y_destination)

\* the first sample of rendered segment k
FirstSample(k) == crv.samples[crv.rendered[k].offset + 1]

\* C16 as stated: in a multi-segment render the shape of segment k is
\* initialised with (target of segment k-1, target of segment k), the curve's
\* y_start for the first segment, and the first sample of every segment equals
\* the previous segment's target, whatever shapes are used.
C16_SegmentsStartAtPreviousTarget ==
    \A k \in 1..Len(crv.rendered) :
       /\ crv.rendered[k].running_y = PreviousTarget(k)
       /\ crv.rendered[k].count >= 1 => FirstSample(k) = PreviousTarget(k)

\* the shape's unscaled curve starts at 0: process(0) = 0 as the build computes
\* it for the shapes sampled through process, a parametric x that leaves 0
\* forwards and does not turn back, or a cubic spline (whose first knot is
\* (0, y_start)); not a modulator
StartsAtOrigin(k) ==
    LET s == SegmentShape(k)
        n == crv.rendered[k].count
    IN  CASE s.kind \in SimpleKinds -> process(s, Zero, crv.build) = Zero
          [] s.kind \in ParametricKinds ->
                GridMonotone(s, n) /\ GT(Parametric(s, Norm(1, n)).x, Zero)
          [] s.kind = "cubic_spline" -> TRUE
          [] OTHER -> FALSE

\* C16 amended: the shape of segment k is initialised with (target of segment
\* k-1, target of segment k), the curve's y_start for the first segment, and
\* the first sample of a segment equals the previous target when the shape's
\* unscaled curve starts at 0; a modulator, a callback or a polynomial whose
\* value at 0 is not 0 starts its segment elsewhere.
C16_OriginShapesStartAtPreviousTarget ==
    \A k \in 1..Len(crv.rendered) :
       /\ crv.rendered[k].running_y = PreviousTarget(k)
       /\ crv.rendered[k].offset = SumSeq(crv.counts, k - 1)
       /\ crv.rendered[k].count = crv.counts[k]
       /\ (crv.rendered[k].count >= 1 /\ StartsAtOrigin(k))
             => FirstSample(k) = PreviousTarget(k)

\* the four quarters rendered with one sample each, rising and falling
C16_Witness ==
    /\ crv.pos = 4 /\ Len(crv.samples) = 4
    /\ crv.segs[1].shape.kind = "diocles"
    /\ crv.y_start = Zero
    /\ crv.samples = <<Zero, One, R(1, 2), One>>

(***************************************************************************)
(* Claims on shared shape instances, under SpecShared                      *)
(***************************************************************************)
\* the samples of a render of window w on an instance of its own
OwnSamples(w) ==
    process_all(init(Construct(rnd.shape), w[1], w[2]), rnd.size, rnd.build).samples

\* C17: process_all uses the window state (y_start, y_destination, abs_diff,
\* offset and what init derives from them) of the most recent init on its
\* instance: a render's samples are those of the window of the render that
\* initialised the instance last; that is the other render's window when the
\* two share an instance and the other init came in between, and the render's
\* own window when the renders are serialized or have an instance each.
C17_WindowOfLatestInit ==
    \A r \in Renders :
       rnd.pc[r] = "done"
          => /\ rnd.by[r] \in Renders
             /\ rnd.out[r] = OwnSamples(RenderWindows[rnd.by[r]])
             /\ (~rnd.shared \/ rnd.serial[r]) => rnd.by[r] = r
             /\ (rnd.shared /\ ~rnd.serial[r] /\ rnd.pc[3 - r] = "process_all")
                   => rnd.by[r] = 3 - r

(***************************************************************************)
(* Claims on the scale law and on the Bezier polynomials                   *)
(***************************************************************************)
\* y_start + y * (y_end - y_start)
AffineLaw(y_start_, y_end_, y) == Add(y_start_, Mul(y, Sub(y_end_, y_start_)))

\* raw values handed to scale: inside, at the ends of and outside [0, 1]
RawValues == {R(-1, 2), Zero, R(1, 4), R(1, 2), R(3, 4), One, R(3, 2)}

\* the same shape rendered in the window turned round
MirrorSamples ==
    process_all(init(Construct(ctor), self.y_destination, self.y_start),
                last.size, build).samples

\* C23: for all y_start, y_end and raw y, scale(y) = y_start + y * (y_end -
\* y_start) in either direction; so the samples of a simple shape rendered
\* from a to b and those of the same shape rendered from b to a add up to
\* a + b at every index.
C23_ScaleIsAffine ==
    /\ (ninit > 0 /\ self.kind # "cubic_bezier")
          => \A y \in RawValues :
                scale(self, y) = AffineLaw(self.y_start, self.y_destination, y)
    /\ (Rendered /\ self.kind \in SimpleKinds)
          => LET Mirrored(m) ==
                     /\ Len(m) = last.size
                     /\ \A i \in 1..last.size :
                           /\ Slice[i] = AffineLaw(self.y_start, self.y_destination,
                                            process(self, frac(i - 1, last.size), build))
                           /\ Add(Slice[i], m[i])
                                 = Add(self.y_start, self.y_destination)
             IN  Mirrored(MirrorSamples)

\* a curved shape falling from 1 to -1, its samples off the chord
C23_Witness ==
    /\ Rendered /\ self.kind = "diocles" /\ last.size >= 3
    /\ self.y_start = One /\ self.y_destination = R(-1, 1)
    /\ Slice[1] = One
    /\ Slice[3] # AffineLaw(One, R(-1, 1), R(1, 2))
    /\ Add(Slice[3], MirrorSamples[3]) = Zero

\* cubic_bezier_curve(cp, cp) for the quadratic shape's control point cp,
\* initialised with the window the quadratic shape has
AsCubic ==
    init(Construct(CubicBezier(ctor.cps[1], ctor.cps[1])),
         self.y_start, self.y_destination)

\* parameters at which the two polynomials are compared
Parameters == {R(-1, 2), Zero, R(1, 4), R(1, 3), R(1, 2), R(3, 4), One, R(3, 2)}

\* C24: quadratic_bezier_curve(cp) is equivalent to cubic_bezier_curve(cp, cp):
\* after init with the same window the coefficients of t^3, t^2 and t of x(t)
\* and y(t) are the same (the quadratic class keeps the t^3 coefficient in a_
\* and the t coefficient in c_, the cubic class the other way round), so the
\* two evaluate alike and process_all(size) gives the same samples and peak.
C24_QuadraticIsCubicTwice ==
    (ninit > 0 /\ self.kind = "quadratic_bezier")
       => LET Same(c) ==
                  /\ self.coef.a_x = c.coef.c_x /\ self.coef.a_y = c.coef.c_y
                  /\ self.coef.b_x = c.coef.b_x /\ self.coef.b_y = c.coef.b_y
                  /\ self.coef.c_x = c.coef.a_x /\ self.coef.c_y = c.coef.a_y
                  /\ \A t \in Parameters : Parametric(self, t) = Parametric(c, t)
                  /\ Rendered
                        => LET Alike(r) == r.samples = Slice /\ r.max = last.max
                           IN  Alike(process_all(c, last.size, build))
          IN  Same(AsCubic)

\* a quadratic shape rendered falling, with samples off the chord
C24_Witness ==
    /\ Rendered /\ self.kind = "quadratic_bezier" /\ last.size >= 3
    /\ self.y_start = One /\ self.y_destination = R(-1, 1)
    /\ self.coef.a_x = One
    /\ Slice[1] = One
    /\ Slice[2] # R(1, 2)
    /\ last.max = One

\* cubic_bezier_curve::y_from_t
y_from_t(s, t) ==
    Add(Add(Add(Mul(cubed(Sub(One, t)), s.y_start),
                Mul(Mul(Mul(<<3, 1>>, t), squared(Sub(One, t))), s.cp[1].y)),
            Mul(Mul(Mul(<<3, 1>>, squared(t)), Sub(One, t)), s.cp[2].y)),
        Mul(cubed(t), s.y_destination))

\* the same form for x, where 0 and 1 stand as P0.x and P3.x
x_from_t(s, t) ==
    Add(Add(Mul(Mul(Mul(<<3, 1>>, t), squared(Sub(One, t))), s.cp[1].x),
            Mul(Mul(Mul(<<3, 1>>, squared(t)), Sub(One, t)), s.cp[2].x)),
        cubed(t))

\* C25: for every t the cubic Bezier's process_bezier(t) is the Bernstein form
\* on the control polygon (0, y_start), cp1, cp2, (1, y_end): its y equals
\* y_from_t(t) and its x equals 3 t (1 - t)^2 cp1.x + 3 t^2 (1 - t) cp2.x + t^3.
C25_PolynomialIsBernstein ==
    (ninit > 0 /\ self.kind = "cubic_bezier")
       => \A t \in Parameters :
             /\ cubic_process_bezier(self, t).y = y_from_t(self, t)
             /\ cubic_process_bezier(self, t).x = x_from_t(self, t)

\* a cubic Bezier initialised falling whose curve leaves the chord
C25_Witness ==
    /\ ninit > 0 /\ self.kind = "cubic_bezier"
    /\ self.y_start = One /\ self.y_destination = R(-1, 1)
    /\ self.cp[1].x = R(3, 2)
    /\ cubic_process_bezier(self, R(1, 2)) = Point(x_from_t(self, R(1, 2)), y_from_t(self, R(1, 2)))
    /\ x_from_t(self, R(1, 4)) = R(37, 64)
    /\ y_from_t(self, R(1, 4)) = R(53, 64)

(***************************************************************************)
(* Claims on single-sample evaluation, under SpecEval                      *)
(***************************************************************************)
SampledAt == last.op = "process_at"

\* what process_all makes of the unscaled value of one sample: the default
\* loop runs it through scale, the modulator loop multiplies it by the
\* amplitude, the parametric loops write the interpolated y as it is
AsRendered(s, x, raw) ==
    CASE s.kind = "chebyshev_modulator" -> {Mul(get_amplitude(s, x), raw)}
      [] s.kind \in {"quadratic_bezier", "cubic_bezier", "catmull_rom", "cubic_spline"}
            -> {raw, scale(s, raw)}
      [] OTHER -> {scale(s, raw)}

\* C22: process(i, size), with no process_all call before it, returns for
\* every variant the unscaled value process_all(size) uses for sample i: the
\* call returns, and what process_all makes of the returned value is sample i
\* of process_all(size) on the same shape.
C22_SingleSampleAsRendered ==
    SampledAt
       => /\ ~last.threw
          /\ LET Agrees(m) == Len(m) = last.size /\ m[last.i + 1] \in AsRendered(self, last.x, last.raw)
             IN  Agrees(process_all(self, last.size, build).samples)

(***************************************************************************)
(* The Bezier inversion solvers of cubic_bezier_curve                      *)
(***************************************************************************)
\* largest k in lo..hi with k * k * k <= n
RECURSIVE ICbrtIn(_, _, _)
ICbrtIn(n, lo, hi) ==
    IF lo >= hi THEN lo
    ELSE LET mid == (lo + hi + 1) \div 2
         IN  IF mid * mid * mid <= n THEN ICbrtIn(n, mid, hi) ELSE ICbrtIn(n, lo, mid - 1)

ICbrt(n) == ICbrtIn(n, 0, IF n < 1290 THEN n ELSE 1290)

\* the grid a non-exact cube root is rounded down to
CbrtGrid == 2 * 2 * 2 * 2

\* cubic_root(x) for x >= 0: exact on cubes of rationals
cubic_root(a) ==
    IF IsNaN(a) \/ a[2] = 0 THEN a
    ELSE LET rn == ICbrt(a[1])
             rd == ICbrt(a[2])
         IN  IF rn * rn * rn = a[1] /\ rd * rd * rd = a[2] THEN <<rn, rd>>
             ELSE Norm(ICbrt((a[1] * CbrtGrid * CbrtGrid * CbrtGrid) \div a[2]), CbrtGrid)

\* (v < 0) ? -cubic_root(-v) : cubic_root(v)
SignedRoot(v) == IF LT(v, Zero) THEN Neg(cubic_root(Neg(v))) ELSE cubic_root(v)

\* the two ways a solver ends
Returned(v, path) == [threw |-> FALSE, value |-> v, path |-> path]

Thrown(path) == [threw |-> TRUE, value |-> Zero, path |-> path]

\* result >= 0 && result <= 1
Accepted(result) == GE(result, Zero) /\ LE(result, One)

\* the first of the candidate results, in order, that passes the test
RECURSIVE FirstAccepted(_, _)
FirstAccepted(results, path) ==
    IF results = <<>> THEN Thrown(path)
    ELSE IF Accepted(Head(results)) THEN Returned(Head(results), path)
    ELSE FirstAccepted(Tail(results), path)

solve_quadratic(a, b, c) ==
    LET root == Sqrt(Sub(squared(b), Mul(Mul(<<4, 1>>, a), c)))
        twice == Mul(<<2, 1>>, a)
    IN  FirstAccepted(<<Div(Add(Neg(b), root), twice),
                        Div(Sub(Neg(b), root), twice)>>, "quadratic")

\* std::cos of (std::acos(ratio) + 2 k pi) / 3 for k = 0, 1, 2: cs when the
\* ratio is in acos's domain, NaN otherwise
Cosines(ratio, cs) ==
    IF GE(ratio, R(-1, 1)) /\ LE(ratio, One) THEN cs ELSE <<NaN, NaN, NaN>>

\* the branch of the positive discriminant returning its sum untested
solve_cubic_untested(a, b, c, d, cs) ==
    IF a = Zero THEN solve_quadratic(b, c, d)
    ELSE IF d = Zero THEN Returned(Zero, "d == 0")
    ELSE LET b_ == Div(b, a)
             c_ == Div(c, a)
             d_ == Div(d, a)
             q == Div(Sub(Mul(<<3, 1>>, c_), squared(b_)), <<9, 1>>)
             r == Div(Add(Mul(<<-27, 1>>, d_),
                          Mul(b_, Sub(Mul(<<9, 1>>, c_), Mul(<<2, 1>>, squared(b_))))),
                      <<54, 1>>)
             disc == Add(cubed(q), squared(r))
             term1 == Div(b_, <<3, 1>>)
         IN  IF GT(disc, Zero)
             THEN Returned(Add(Add(Neg(term1), SignedRoot(Add(r, Sqrt(disc)))),
                               SignedRoot(Sub(r, Sqrt(disc)))), "disc > 0")
             ELSE IF disc = Zero
             THEN LET r13 == SignedRoot(r)
                  IN  FirstAccepted(<<Add(Neg(term1), Mul(<<2, 1>>, r13)),
                                      Neg(Add(r13, term1))>>, "disc == 0")
             ELSE LET q_ == Neg(q)
                      dum1 == Mul(Mul(q_, q_), q_)
                      cosines == Cosines(Div(r, Sqrt(dum1)), cs)
                      r13 == Mul(<<2, 1>>, Sqrt(q_))
                  IN  FirstAccepted(<<Add(Neg(term1), Mul(r13, cosines[1])),
                                      Add(Neg(term1), Mul(r13, cosines[2])),
                                      Add(Neg(term1), Mul(r13, cosines[3]))>>, "disc < 0")

\* cs are the three values std::cos gives in the branch of three real roots
solve_cubic(a, b, c, d, cs) ==
    IF a = Zero THEN solve_quadratic(b, c, d)
    ELSE IF d = Zero THEN Returned(Zero, "d == 0")
    ELSE LET b_ == Div(b, a)
             c_ == Div(c, a)
             d_ == Div(d, a)
             q == Div(Sub(Mul(<<3, 1>>, c_), squared(b_)), <<9, 1>>)
             r == Div(Add(Mul(<<-27, 1>>, d_),
                          Mul(b_, Sub(Mul(<<9, 1>>, c_), Mul(<<2, 1>>, squared(b_))))),
                      <<54, 1>>)
             disc == Add(cubed(q), squared(r))
             term1 == Div(b_, <<3, 1>>)
         IN  IF GT(disc, Zero)
             THEN FirstAccepted(<<Add(Add(Neg(term1), SignedRoot(Add(r, Sqrt(disc)))),
                                      SignedRoot(Sub(r, Sqrt(disc))))>>, "disc > 0")
             ELSE IF disc = Zero
             THEN LET r13 == SignedRoot(r)
                  IN  FirstAccepted(<<Add(Neg(term1), Mul(<<2, 1>>, r13)),
                                      Neg(Add(r13, term1))>>, "disc == 0")
             ELSE LET q_ == Neg(q)
                      dum1 == Mul(Mul(q_, q_), q_)
                      cosines == Cosines(Div(r, Sqrt(dum1)), cs)
                      r13 == Mul(<<2, 1>>, Sqrt(q_))
                  IN  FirstAccepted(<<Add(Neg(term1), Mul(r13, cosines[1])),
                                      Add(Neg(term1), Mul(r13, cosines[2])),
                                      Add(Neg(term1), Mul(r13, cosines[3]))>>, "disc < 0")

calculate_t(s, x, cs) ==
    IF x = Zero THEN Returned(Zero, "x == 0")
    ELSE IF x = One THEN Returned(One, "x == 1")
    ELSE solve_cubic(Add(Sub(Add(Zero, Mul(<<3, 1>>, s.cp[1].x)), Mul(<<3, 1>>, s.cp[2].x)), One),
                     Add(Sub(Zero, Mul(<<6, 1>>, s.cp[1].x)), Mul(<<3, 1>>, s.cp[2].x)),
                     Add(Zero, Mul(<<3, 1>>, s.cp[1].x)),
                     Sub(Zero, x), cs)

\* coefficients handed to the solvers: whole numbers around zero, and the
\* leading coefficients 0, 1, -1 and 2
Coefficients == {R(k, 1) : k \in -3..3}

Leading == {Zero, One, R(-1, 1), R(2, 1)}

\* what std::cos can give for the angles acos / 3, + 2 pi / 3 and + 4 pi / 3
CosineTriples ==
    {<<c1, c2, c3>> : c1 \in {R(1, 2), R(3, 4), One},
                      c2 \in {R(-1, 1), R(-3, 4), R(-1, 2)},
                      c3 \in {R(-1, 2), R(-1, 4), R(1, 4), R(1, 2)}}

\* the x a cubic Bezier is inverted at
Abscissas == {R(-1, 4), Zero, R(1, 4), R(1, 2), R(3, 4), One, R(5, 4)}

SolveCtors == {c \in Ctors : c.kind = "cubic_bezier"}

\* the calls a run makes: the member function, its arguments and the cosines
Calls ==
    {[op |-> "solve_cubic", args |-> <<a, b, c, d>>, cs |-> cs] :
        a \in Leading, b \in Coefficients, c \in Coefficients, d \in Coefficients,
        cs \in CosineTriples}
    \cup {[op |-> "solve_quadratic", args |-> <<a, b, c>>, cs |-> <<>>] :
             a \in Coefficients, b \in Coefficients, c \in Coefficients}
    \cup {[op |-> "calculate_t", args |-> <<x>>, cs |-> cs] :
             x \in Abscissas, cs \in CosineTriples}

\* a cubic Bezier constructed, and the call about to be made on it
InitSolve ==
    /\ ctor \in SolveCtors
    /\ build \in Builds(ctor)
    /\ self = Construct(ctor)
    /\ buf = [i \in 1..BufLen |-> Zero]
    /\ it = 1
    /\ \E call \in Calls :
          last = [NoCall EXCEPT !.op = "call", !.path = call.op,
                                !.args = call.args, !.picks = call.cs]
    /\ ninit = 0
    /\ crv = NoCurve
    /\ rnd = NoRenders

Solved(op, r) ==
    /\ last.op = "call"
    /\ last.path = op
    /\ last' = [last EXCEPT !.op = op, !.threw = r.threw, !.value = r.value,
                            !.path = r.path]
    /\ UNCHANGED <<ctor, build, self, buf, it, ninit, crv, rnd>>

CallSolveCubic ==
    /\ Len(last.args) = 4
    /\ Solved("solve_cubic",
              solve_cubic(last.args[1], last.args[2], last.args[3], last.args[4],
                          last.picks))

CallSolveQuadratic ==
    /\ Len(last.args) = 3
    /\ Solved("solve_quadratic",
              solve_quadratic(last.args[1], last.args[2], last.args[3]))

CallCalculateT ==
    /\ Len(last.args) = 1
    /\ Solved("calculate_t", calculate_t(self, last.args[1], last.picks))

NextSolve ==
    \/ CallSolveCubic
    \/ CallSolveQuadratic
    \/ CallCalculateT

SpecSolve == InitSolve /\ [][NextSolve]_vars

Solving == last.op \in {"solve_cubic", "solve_quadratic", "calculate_t"}

\* C21: solve_cubic(a, b, c, d) and solve_quadratic(a, b, c) (and calculate_t,
\* which hands its coefficients to them) have two outcomes on every input: a
\* value in [0, 1] is returned, or a runtime error is thrown; no path gives a
\* value outside [0, 1] or ends with neither.
C21_SolversReturnUnitOrThrow ==
    Solving
       => /\ last.path \in {"quadratic", "d == 0", "disc > 0", "disc == 0", "disc < 0",
                           "x == 0", "x == 1"}
          /\ last.threw \/ (GE(last.value, Zero) /\ LE(last.value, One))

\* the branch of the positive discriminant returning a root strictly inside
C21_Witness ==
    /\ last.op = "solve_cubic" /\ last.path = "disc > 0" /\ ~last.threw
    /\ last.args = <<One, Zero, One, R(-1, 1)>>
    /\ LT(Zero, last.value) /\ LT(last.value, One)

=============================================================================
